---- MODULE Spec2Model ----
(***************************************************************************)
(* A model of demoji/__init__.py: the lazily initialised emoji matcher     *)
(* (_EMOJI_PAT, _CODE_TO_DESC, set_emoji_pattern, cache_setter), the four  *)
(* public operations built on it (findall, findall_list, replace,          *)
(* replace_with_desc) and the module-level attribute lookup (__getattr__). *)
(*                                                                         *)
(* A Python str is a sequence of code points; a code point is an atom.     *)
(***************************************************************************)
EXTENDS Integers, Sequences, FiniteSets, TLC

\* ------------------------------------------------------------ code points
Thumb == "U+1F44D"
Tone == "U+1F3FD"
Space == "U+0020"
Backslash == "U+005C"
Colon == "U+003A"
LetterT == "t"

\* ------------------------------------------------------------ bounds
MaxTextLen == 3
MaxKeys == 2
NThreads == 2
MaxCalls == 2

SeqsUpTo(S, n) == UNION { [1..k -> S] : k \in 0..n }

\* The code points dictionary keys are made of, and those of input text.
KeyChars == {Thumb, Tone}
TextChars == {Thumb, Tone, Space}

\* Dictionary sequences: one code point, or a code point and its modifier.
MaxKeyLen == Cardinality(KeyChars)
Keys == SeqsUpTo(KeyChars, MaxKeyLen) \ {<< >>}
Texts == SeqsUpTo(TextChars, MaxTextLen)

\* The repl of replace, the sep of replace_with_desc.
Params ==
    {<< >>, <<Space>>, <<Thumb>>, <<Backslash>>, <<Backslash, Backslash>>,
     <<Backslash, Space>>}

\* The description of the i-th member of the resource: i letters.
DescAt(i) == [j \in 1..i |-> LetterT]

\* ------------------------------------------------------------ values
\* What a call hands back to its caller: a value, or a raised exception.
Ok(v) == [err |-> "none", val |-> v]
Raise(e) == [err |-> e, val |-> << >>]
IsOk(r) == r.err = "none"

\* A JSON value that is not a string (the number 1).
NotAString == <<"int:1">>

\* ------------------------------------------------------------ str helpers
SubStr(s, from, to) == [i \in 1..(to - from + 1) |-> s[from + i - 1]]

\* old is a prefix of s[pos..]
PrefixAt(s, pos, old) ==
    /\ pos + Len(old) - 1 <= Len(s)
    /\ \A i \in 1..Len(old) : s[pos + i - 1] = old[i]

\* old occurs in s
Occurs(s, old) == \E pos \in 1..(Len(s) + 1) : PrefixAt(s, pos, old)

RECURSIVE Interleave(_, _, _)
Interleave(s, new, pos) ==
    IF pos > Len(s) THEN new
    ELSE new \o <<s[pos]>> \o Interleave(s, new, pos + 1)

RECURSIVE StrReplaceFrom(_, _, _, _)
StrReplaceFrom(s, old, new, pos) ==
    IF pos > Len(s) THEN << >>
    ELSE IF PrefixAt(s, pos, old)
         THEN new \o StrReplaceFrom(s, old, new, pos + Len(old))
         ELSE <<s[pos]>> \o StrReplaceFrom(s, old, new, pos + 1)

\* str.replace(old, new): every non-overlapping occurrence, left to right; an
\* empty old matches before every code point and at the end.
StrReplace(s, old, new) ==
    IF old = << >> THEN Interleave(s, new, 1)
    ELSE StrReplaceFrom(s, old, new, 1)

\* ------------------------------------------------------------ _compile_codes
\* sorted(codes, key=len, reverse=True): a stable sort, longest first; keys of
\* equal length keep the order the dictionary iterates them in.
RECURSIVE InsertByLen(_, _)
InsertByLen(sorted, k) ==
    IF sorted = << >> THEN <<k>>
    ELSE IF Len(Head(sorted)) >= Len(k)
         THEN <<Head(sorted)>> \o InsertByLen(Tail(sorted), k)
         ELSE <<k>> \o sorted

RECURSIVE SortedByLenDesc(_)
SortedByLenDesc(ks) ==
    IF ks = << >> THEN << >>
    ELSE InsertByLen(SortedByLenDesc(SubStr(ks, 1, Len(ks) - 1)), ks[Len(ks)])

\* Iterating a loaded dict yields its keys in insertion order.
KeysOf(entries) == [i \in 1..Len(entries) |-> entries[i].key]

\* The compiled pattern, as the ordered list of its literal alternatives
\* (re.escape makes every alternative a literal).  "|".join of no key is the
\* empty pattern, which has the empty string as its only alternative.
\* _compile_codes without reverse=True: shortest first.
ShortestFirstCompileCodes(ks) ==
    IF ks = << >> THEN << << >> >>
    ELSE [i \in 1..Len(ks) |-> SortedByLenDesc(ks)[Len(ks) + 1 - i]]

CompileCodes(ks) ==
    IF ks = << >> THEN << << >> >> ELSE SortedByLenDesc(ks)

\* ------------------------------------------------------------ matching
\* One match attempt of the alternation at pos: the index of the first
\* alternative, in pattern order, that is a prefix of the text there, or 0 when
\* none is; after an empty match the engine must advance, so an empty
\* alternative does not match again.
RECURSIVE MatchAt(_, _, _, _, _)
MatchAt(pat, s, pos, mustAdvance, i) ==
    IF i > Len(pat) THEN 0
    ELSE IF PrefixAt(s, pos, pat[i]) /\ (~mustAdvance \/ Len(pat[i]) > 0)
         THEN i
         ELSE MatchAt(pat, s, pos, mustAdvance, i + 1)

\* The scan (pattern.finditer): every non-overlapping match, left to right.
RECURSIVE ScanFrom(_, _, _, _)
ScanFrom(pat, s, pos, mustAdvance) ==
    IF pos > Len(s) + 1 THEN << >>
    ELSE LET i == MatchAt(pat, s, pos, mustAdvance, 1) IN
         IF i = 0 THEN ScanFrom(pat, s, pos + 1, FALSE)
         ELSE <<[seq |-> pat[i], start |-> pos]>>
              \o ScanFrom(pat, s, pos + Len(pat[i]), Len(pat[i]) = 0)

Scan(pat, s) == ScanFrom(pat, s, 1, FALSE)

\* pattern.findall(string): the matched strings of the scan.
PatFindall(pat, s) == [i \in 1..Len(Scan(pat, s)) |-> Scan(pat, s)[i].seq]

\* ------------------------------------------------------------ pattern.sub
\* The replacement template: a repl holding a backslash is parsed first.  A
\* doubled backslash is one backslash; a backslash before a code point that is
\* neither a letter nor a digit stays, with that code point; a backslash that
\* ends the template is an error, raised whether or not anything matches.
RECURSIVE ExpandTemplate(_, _)
ExpandTemplate(repl, pos) ==
    IF pos > Len(repl) THEN Ok(<< >>)
    ELSE IF repl[pos] # Backslash
         THEN LET rest == ExpandTemplate(repl, pos + 1) IN
              IF IsOk(rest) THEN Ok(<<repl[pos]>> \o rest.val) ELSE rest
    ELSE IF pos = Len(repl) THEN Raise("re.error")
    ELSE LET rest == ExpandTemplate(repl, pos + 2) IN
         IF ~IsOk(rest) THEN rest
         ELSE IF repl[pos + 1] = Backslash THEN Ok(<<Backslash>> \o rest.val)
         ELSE Ok(<<Backslash, repl[pos + 1]>> \o rest.val)

RECURSIVE SubFrom(_, _, _, _, _)
SubFrom(pat, new, s, pos, mustAdvance) ==
    IF pos > Len(s) + 1 THEN << >>
    ELSE LET i == MatchAt(pat, s, pos, mustAdvance, 1) IN
         IF i = 0
         THEN (IF pos <= Len(s) THEN <<s[pos]>> ELSE << >>)
              \o SubFrom(pat, new, s, pos + 1, FALSE)
         ELSE new \o SubFrom(pat, new, s, pos + Len(pat[i]), Len(pat[i]) = 0)

\* s from pos to its end
CopyFrom(s, pos) == IF pos > Len(s) THEN << >> ELSE SubStr(s, pos, Len(s))

\* pattern.sub(repl, string)
PatSub(pat, repl, s) ==
    LET t == ExpandTemplate(repl, 1) IN
    IF IsOk(t) THEN Ok(SubFrom(pat, t.val, s, 1, FALSE)) ELSE t

\* ------------------------------------------------------------ the dict
\* A dict is the set of its <<key, value>> items, one per key.
DictKeys(d) == {p[1] : p \in d}
Lookup(d, k) == (CHOOSE p \in d : p[1] = k)[2]
DictSet(d, k, v) == {p \in d : p[1] # k} \cup {<<k, v>>}

\* ------------------------------------------------------------ the resource
\* The bundled codes.json, as json.load sees it.  An "object" holds its
\* members in file order; a "list" holds its items in the key field.
Res(kind, entries) == [kind |-> kind, entries |-> entries]
Entry(k, v) == [key |-> k, val |-> v]

\* Every dictionary of at most MaxKeys sequences, each mapped to a description.
Dictionaries ==
    {Res("object", [i \in 1..Len(ks) |-> Entry(ks[i], DescAt(i))]) :
        ks \in {k \in SeqsUpTo(Keys, MaxKeys) : \A i, j \in 1..Len(k) : k[i] = k[j] => i = j}}

\* A resource is malformed when it is not an object mapping string to string.
Malformed(r) ==
    \/ r.kind # "object"
    \/ \E i \in 1..Len(r.entries) : r.entries[i].val = NotAString

\* The resources the lazily initialised module is run against.
Resources ==
    { Res("missing", << >>),
      Res("invalid", << >>),
      Res("number", << >>),
      Res("list", <<Entry(<<Thumb>>, << >>)>>),
      Res("list", <<Entry(<<Thumb, Space>>, << >>)>>),
      Res("list", <<Entry(<<Thumb, Space>>, << >>), Entry(<<Tone>>, << >>)>>),
      Res("object", <<Entry(<<Thumb>>, NotAString)>>),
      Res("object", <<Entry(<<Thumb>>, DescAt(1))>>),
      Res("object", <<Entry(<<Thumb>>, DescAt(1)), Entry(<<Thumb, Tone>>, DescAt(2))>>) }

\* _load_codes_from_file: open_text raises when the resource is missing,
\* json.load when it is not JSON; otherwise whatever JSON value it holds.
LoadCodesFromFile(r) ==
    CASE r.kind = "missing" -> Raise("FileNotFoundError")
      [] r.kind = "invalid" -> Raise("JSONDecodeError")
      [] OTHER -> Ok(r)

\* _compile_codes(codes): sorted() iterates codes, which a number is not.
CompileLoaded(codes) ==
    IF codes.kind = "number" THEN Raise("TypeError")
    ELSE Ok(CompileCodes(KeysOf(codes.entries)))

\* dict.update(codes), item by item.  A dict brings its items; of any other
\* iterable each element must itself be a sequence of two, so a two-code-point
\* string becomes key and value, and a string of another length raises
\* ValueError with the earlier elements already stored.
RECURSIVE DictUpdate(_, _, _, _)
DictUpdate(d, kind, es, i) ==
    IF i > Len(es) THEN [err |-> "none", val |-> d]
    ELSE IF kind = "object"
         THEN DictUpdate(DictSet(d, es[i].key, es[i].val), kind, es, i + 1)
    ELSE IF Len(es[i].key) = 2
         THEN DictUpdate(DictSet(d, <<es[i].key[1]>>, <<es[i].key[2]>>), kind, es, i + 1)
    ELSE [err |-> "ValueError", val |-> d]

\* ------------------------------------------------------------ public operations
\* findall (body): {f: _CODE_TO_DESC[f] for f in set(_EMOJI_PAT.findall(string))}
Findall(pat, c2d, s) ==
    LET found == PatFindall(pat, s)
        uniq == {found[i] : i \in 1..Len(found)}
    IN IF uniq \subseteq DictKeys(c2d)
       THEN Ok({<<f, Lookup(c2d, f)>> : f \in uniq})
       ELSE Raise("KeyError")

\* findall_list (body)
FindallList(pat, c2d, s, desc) ==
    LET found == PatFindall(pat, s) IN
    IF ~desc THEN Ok(found)
    ELSE IF \A i \in 1..Len(found) : found[i] \in DictKeys(c2d)
         THEN Ok([i \in 1..Len(found) |-> Lookup(c2d, found[i])])
         ELSE Raise("KeyError")

\* replace (body): _EMOJI_PAT.sub(repl, string)
\* A replace that emits only the replacements, not the text between them.
RECURSIVE Repeat(_, _)
Repeat(new, n) == IF n = 0 THEN << >> ELSE new \o Repeat(new, n - 1)

ReplaceDroppingText(pat, s, repl) ==
    LET t == ExpandTemplate(repl, 1) IN
    IF IsOk(t) THEN Ok(Repeat(t.val, Len(Scan(pat, s)))) ELSE t

Replace(pat, s, repl) == PatSub(pat, repl, s)

\* The orders in which a set (and the dict built from it) may be iterated.
Orders(S) ==
    {o \in [1..Cardinality(S) -> S] : \A i, j \in 1..Cardinality(S) : o[i] = o[j] => i = j}

\* replace_with_desc (loop): result = result.replace(emoji, sep + desc + sep)
RECURSIVE DescLoop(_, _, _, _, _)
DescLoop(result, c2d, sep, order, i) ==
    IF i > Len(order) THEN Ok(result)
    ELSE LET desc == Lookup(c2d, order[i]) IN
         IF desc = NotAString THEN Raise("TypeError")
         ELSE DescLoop(StrReplace(result, order[i], sep \o desc \o sep),
                       c2d, sep, order, i + 1)

\* replace_with_desc (body); findall's own set_emoji_pattern finds the pattern
\* set, the caller's wrapper having returned, and does nothing.
ReplaceWithDesc(pat, c2d, s, sep, order) ==
    LET found == Findall(pat, c2d, s) IN
    IF IsOk(found) THEN DescLoop(s, c2d, sep, order, 1) ELSE found

FoundKeys(pat, s) == {PatFindall(pat, s)[i] : i \in 1..Len(PatFindall(pat, s))}

\* ------------------------------------------------------------ module attributes
\* Names bound in the module's namespace once the module body has run.
ModuleGlobals ==
    {"EMOJI_VERSION", "URL", "findall", "findall_list", "replace",
     "replace_with_desc", "last_downloaded_timestamp", "set_emoji_pattern",
     "parent", "CACHEPATH", "MODULEPATH", "download_codes"}

\* The names whose lookup on the module is modelled.
AttrNames == {"DIRECTORY", "CACHEPATH", "MODULEPATH", "URL", "NO_SUCH_NAME"}

Access(name, warned, res) == [name |-> name, warned |-> warned, res |-> res]

\* __getattr__(name): the module's hook for names its namespace lacks.
ModuleGetattrHook(name) ==
    CASE name = "DIRECTORY" -> Access(name, TRUE, Ok(<<"~", ".demoji">>))
      [] name = "CACHEPATH" -> Access(name, TRUE, Ok(<<"~", ".demoji", "codes.json">>))
      [] OTHER -> Access(name, FALSE, Raise("AttributeError"))

\* demoji.<name>: the namespace first, the hook only for a name it lacks.
ModuleAttr(name) ==
    IF name \in ModuleGlobals
    THEN Access(name, FALSE, Ok(<<"<module>", name>>))
    ELSE ModuleGetattrHook(name)

\* ------------------------------------------------------------ state
VARIABLES
    resource,       \* the bundled codes.json
    EMOJI_PAT,      \* _EMOJI_PAT
    CODE_TO_DESC,   \* _CODE_TO_DESC
    pc,             \* where each thread is in a public call
    codes,          \* set_emoji_pattern's local codes, per thread
    ret,            \* what each thread's call gave its caller
    calls,          \* public calls each thread has made
    loads,          \* times the resource was read into a value
    compiles,       \* times _compile_codes built a pattern
    attr,           \* the last attribute looked up on the module
    string,         \* input text of the operation applied
    param,          \* its repl or sep
    out             \* its result

vars == <<resource, EMOJI_PAT, CODE_TO_DESC, pc, codes, ret, calls, loads,
          compiles, attr, string, param, out>>

Threads == 1..NThreads

None == [set |-> FALSE, alts |-> << >>]
Pat(alts) == [set |-> TRUE, alts |-> alts]

NoCodes == Res("unbound", << >>)
Result(op, arg, res) == [op |-> op, arg |-> arg, res |-> res]
NoResult == Result("none", << >>, Ok(<< >>))
NoAccess == Access("none", FALSE, Ok(<< >>))

\* The texts and parameters the threads call the operations with.
CallTexts == {<< >>, <<Thumb>>, <<Thumb, Tone>>}
DefaultRepl == << >>
DefaultSep == <<Colon>>

sharedVars == <<EMOJI_PAT, CODE_TO_DESC, loads, compiles>>
pureVars == <<string, param, out>>

\* The module as imported: nothing loaded, every thread outside a call.
Init ==
    /\ resource \in Resources
    /\ EMOJI_PAT = None
    /\ CODE_TO_DESC = {}
    /\ pc = [t \in Threads |-> "idle"]
    /\ codes = [t \in Threads |-> NoCodes]
    /\ ret = [t \in Threads |-> NoResult]
    /\ calls = [t \in Threads |-> 0]
    /\ loads = 0
    /\ compiles = 0
    /\ attr = NoAccess
    /\ string = << >>
    /\ param = << >>
    /\ out = NoResult

\* cache_setter.wrapper is entered: a public operation is called.
Enter(t) ==
    /\ pc[t] = "idle"
    /\ calls[t] < MaxCalls
    /\ calls' = [calls EXCEPT ![t] = @ + 1]
    /\ pc' = [pc EXCEPT ![t] = "check"]
    /\ UNCHANGED <<resource, sharedVars, codes, ret, attr, pureVars>>

\* set_emoji_pattern: if _EMOJI_PAT is None
CheckNone(t) ==
    /\ pc[t] = "check"
    /\ pc' = [pc EXCEPT ![t] = IF EMOJI_PAT.set THEN "func" ELSE "load"]
    /\ UNCHANGED <<resource, sharedVars, codes, ret, calls, attr, pureVars>>

\* set_emoji_pattern: codes = _load_codes_from_file()
Load(t) ==
    /\ pc[t] = "load"
    /\ LET got == LoadCodesFromFile(resource) IN
       IF IsOk(got)
       THEN /\ codes' = [codes EXCEPT ![t] = got.val]
            /\ loads' = loads + 1
            /\ pc' = [pc EXCEPT ![t] = "compile"]
            /\ ret' = ret
       ELSE /\ ret' = [ret EXCEPT ![t] = Result("set_emoji_pattern", << >>, got)]
            /\ pc' = [pc EXCEPT ![t] = "done"]
            /\ UNCHANGED <<codes, loads>>
    /\ UNCHANGED <<resource, EMOJI_PAT, CODE_TO_DESC, compiles, calls, attr, pureVars>>

\* set_emoji_pattern: _EMOJI_PAT = _compile_codes(codes)
Compile(t) ==
    /\ pc[t] = "compile"
    /\ LET got == CompileLoaded(codes[t]) IN
       IF IsOk(got)
       THEN /\ EMOJI_PAT' = Pat(got.val)
            /\ compiles' = compiles + 1
            /\ pc' = [pc EXCEPT ![t] = "update"]
            /\ UNCHANGED <<ret, codes>>
       ELSE /\ ret' = [ret EXCEPT ![t] = Result("set_emoji_pattern", << >>, got)]
            /\ pc' = [pc EXCEPT ![t] = "done"]
            /\ codes' = [codes EXCEPT ![t] = NoCodes]
            /\ UNCHANGED <<EMOJI_PAT, compiles>>
    /\ UNCHANGED <<resource, CODE_TO_DESC, loads, calls, attr, pureVars>>

\* set_emoji_pattern: _CODE_TO_DESC.update(codes)
Update(t) ==
    /\ pc[t] = "update"
    /\ LET got == DictUpdate(CODE_TO_DESC, codes[t].kind, codes[t].entries, 1) IN
       /\ CODE_TO_DESC' = got.val
       /\ IF got.err = "none"
          THEN /\ pc' = [pc EXCEPT ![t] = "func"]
               /\ ret' = ret
          ELSE /\ pc' = [pc EXCEPT ![t] = "done"]
               /\ ret' = [ret EXCEPT ![t] =
                             Result("set_emoji_pattern", << >>, Raise(got.err))]
    /\ codes' = [codes EXCEPT ![t] = NoCodes]
    /\ UNCHANGED <<resource, EMOJI_PAT, loads, compiles, calls, attr, pureVars>>

Finish(t, r) ==
    /\ pc[t] = "func"
    /\ ret' = [ret EXCEPT ![t] = r]
    /\ pc' = [pc EXCEPT ![t] = "done"]
    /\ UNCHANGED <<resource, sharedVars, codes, calls, attr, pureVars>>

\* wrapper: return func(*args, **kwargs), for each decorated function
CallFindall(t) ==
    \E s \in CallTexts :
        Finish(t, Result("findall", s, Findall(EMOJI_PAT.alts, CODE_TO_DESC, s)))

CallFindallList(t) ==
    \E s \in CallTexts, desc \in BOOLEAN :
        Finish(t, Result(IF desc THEN "findall_list" ELSE "findall_list(desc=False)",
                         s, FindallList(EMOJI_PAT.alts, CODE_TO_DESC, s, desc)))

CallReplace(t) ==
    \E s \in CallTexts :
        Finish(t, Result("replace", s, Replace(EMOJI_PAT.alts, s, DefaultRepl)))

CallReplaceWithDesc(t) ==
    \E s \in CallTexts :
        \E order \in Orders(FoundKeys(EMOJI_PAT.alts, s)) :
            Finish(t, Result("replace_with_desc", s,
                     ReplaceWithDesc(EMOJI_PAT.alts, CODE_TO_DESC, s, DefaultSep, order)))

\* The caller has its value or its exception.
Return(t) ==
    /\ pc[t] = "done"
    /\ pc' = [pc EXCEPT ![t] = "idle"]
    /\ ret' = [ret EXCEPT ![t] = NoResult]
    /\ UNCHANGED <<resource, sharedVars, codes, calls, attr, pureVars>>

\* demoji.<name> is read.
GetAttr ==
    /\ \E name \in AttrNames : attr' = ModuleAttr(name)
    /\ UNCHANGED <<resource, sharedVars, pc, codes, ret, calls, pureVars>>

Next ==
    \/ \E t \in Threads : Enter(t)
    \/ \E t \in Threads : CheckNone(t)
    \/ \E t \in Threads : Load(t)
    \/ \E t \in Threads : Compile(t)
    \/ \E t \in Threads : Update(t)
    \/ \E t \in Threads : CallFindall(t)
    \/ \E t \in Threads : CallFindallList(t)
    \/ \E t \in Threads : CallReplace(t)
    \/ \E t \in Threads : CallReplaceWithDesc(t)
    \/ \E t \in Threads : Return(t)
    \/ GetAttr

Spec == Init /\ [][Next]_vars

\* ------------------------------------------------------------ the operations as functions
\* The module initialised from a dictionary (set_emoji_pattern has run to its
\* end), and one operation applied to one text with one parameter.
InitPure ==
    /\ resource \in Dictionaries
    /\ EMOJI_PAT = Pat(CompileLoaded(resource).val)
    /\ CODE_TO_DESC = DictUpdate({}, resource.kind, resource.entries, 1).val
    /\ pc = [t \in Threads |-> "idle"]
    /\ codes = [t \in Threads |-> NoCodes]
    /\ ret = [t \in Threads |-> NoResult]
    /\ calls = [t \in Threads |-> 0]
    /\ loads = 1
    /\ compiles = 1
    /\ attr = NoAccess
    /\ string \in Texts
    /\ param = << >>
    /\ out = NoResult

Apply(r, p) ==
    /\ out.op = "none"
    /\ out' = r
    /\ param' = p
    /\ UNCHANGED <<resource, sharedVars, pc, codes, ret, calls, attr, string>>

ApplyFindall ==
    Apply(Result("findall", string, Findall(EMOJI_PAT.alts, CODE_TO_DESC, string)),
          param)

ApplyFindallList ==
    \E desc \in BOOLEAN :
        Apply(Result(IF desc THEN "findall_list" ELSE "findall_list(desc=False)",
                     string, FindallList(EMOJI_PAT.alts, CODE_TO_DESC, string, desc)),
              param)

ApplyReplace ==
    \E repl \in Params :
        Apply(Result("replace", string, Replace(EMOJI_PAT.alts, string, repl)), repl)

\* replace applied to what replace returned, with the same repl
ApplyReplaceAgain ==
    /\ out.op = "replace"
    /\ IsOk(out.res)
    /\ out' = Result("replace(replace)", out.res.val,
                     Replace(EMOJI_PAT.alts, out.res.val, param))
    /\ UNCHANGED <<resource, sharedVars, pc, codes, ret, calls, attr, string, param>>

ApplyReplaceWithDesc ==
    \E sep \in Params, order \in Orders(FoundKeys(EMOJI_PAT.alts, string)) :
        Apply(Result("replace_with_desc", string,
                     ReplaceWithDesc(EMOJI_PAT.alts, CODE_TO_DESC, string, sep, order)),
              sep)

NextPure ==
    \/ ApplyFindall
    \/ ApplyFindallList
    \/ ApplyReplace
    \/ ApplyReplaceAgain
    \/ ApplyReplaceWithDesc

SpecPure == InitPure /\ [][NextPure]_vars

\* ============================================================ properties
Matcher == EMOJI_PAT.alts
Dictionary == DictKeys(CODE_TO_DESC)
Applied == out.op # "none"
NonEmptyDictionary == resource.entries # << >>

\* The description the resource gives sequence k.
ResourceDesc(k) ==
    resource.entries[CHOOSE i \in 1..Len(resource.entries) : resource.entries[i].key = k].val

\* m is the longest dictionary key that is a prefix of s at m.start
IsLongestKeyAt(s, m) ==
    /\ m.seq \in Dictionary
    /\ PrefixAt(s, m.start, m.seq)
    /\ \A k \in Dictionary : PrefixAt(s, m.start, k) => Len(k) <= Len(m.seq)

\* s with the literal string new in place of each span of matches, from
\* position pos on; what lies outside the spans is copied.
RECURSIVE SubstituteSpans(_, _, _, _, _)
SubstituteSpans(s, matches, new, i, pos) ==
    IF i > Len(matches) THEN CopyFrom(s, pos)
    ELSE SubStr(s, pos, matches[i].start - 1) \o new
         \o SubstituteSpans(s, matches, new, i + 1, matches[i].start + Len(matches[i].seq))

NoKeyOccursIn(s) == \A k \in Dictionary : ~Occurs(s, k)

\* ------------------------------------------------------------ C1
\* C1: every match the scan reports is the longest dictionary key that is a
\* prefix of the text at the match's start; a text equal to a key B that has
\* a key A as a strict prefix is reported as the one match B.
C1_LongestMatch ==
    Applied =>
        /\ \A i \in 1..Len(Scan(Matcher, string)) :
               IsLongestKeyAt(string, Scan(Matcher, string)[i])
        /\ (string \in Dictionary /\ \E a \in Dictionary : Len(a) < Len(string))
               => PatFindall(Matcher, string) = <<string>>

\* C1 for a dictionary of at least one sequence.
C1_LongestMatchNonEmpty == NonEmptyDictionary => C1_LongestMatch

C1_PrefixKeysWitness ==
    /\ Applied
    /\ string \in Dictionary
    /\ \E a \in Dictionary : Len(a) < Len(string) /\ PrefixAt(string, 1, a)

\* ------------------------------------------------------------ C2
\* C2: the resource is loaded and the matcher compiled at most once, however
\* the threads' calls interleave (stated for a well-formed resource, whose
\* first initialisation succeeds).
C2_ExactlyOnce == ~Malformed(resource) => loads <= 1 /\ compiles <= 1

\* ------------------------------------------------------------ C3
\* C3: whenever _EMOJI_PAT is set, _CODE_TO_DESC holds every sequence the
\* matcher can match, and no description lookup of a call fails (stated for
\* a well-formed resource).
C3_NoPartialState ==
    ~Malformed(resource) =>
        /\ EMOJI_PAT.set => \A i \in 1..Len(Matcher) : Matcher[i] \in Dictionary
        /\ \A t \in Threads : ret[t].res.err # "KeyError"

\* C3, the lookups alone: no call of findall or findall_list raises KeyError.
C3_LookupsSucceed ==
    ~Malformed(resource) => \A t \in Threads : ret[t].res.err # "KeyError"

\* ------------------------------------------------------------ C4
\* C4: replace(text, repl) is text with the literal string repl in place of
\* exactly the spans the scan reports, everything else unchanged and in order
\* (stated over the dictionaries that hold at least one sequence).
C4_ReplaceMatchesScan ==
    (out.op = "replace" /\ NonEmptyDictionary) =>
        out.res = Ok(SubstituteSpans(string, Scan(Matcher, string), param, 1, 1))

\* C4 for a repl that holds no backslash, over every dictionary.
C4_ReplaceMatchesScanPlainRepl ==
    (out.op = "replace" /\ \A i \in 1..Len(param) : param[i] # Backslash) =>
        out.res = Ok(SubstituteSpans(string, Scan(Matcher, string), param, 1, 1))

C4_ReplacedWitness ==
    /\ out.op = "replace"
    /\ Len(Scan(Matcher, string)) > 1
    /\ param # << >>
    /\ \A i \in 1..Len(param) : param[i] # Backslash

\* ------------------------------------------------------------ C5
\* C5 (as claimed): for a repl that contains no dictionary sequence, replace
\* applied to its own result returns that result (stated over the dictionaries
\* that hold at least one sequence).
C5_Idempotent ==
    (out.op = "replace(replace)" /\ NonEmptyDictionary /\ NoKeyOccursIn(param))
        => out.res = Ok(out.arg)

\* C5 (amended): when the scan reports no match on what replace returned,
\* replace applied to that result returns it unchanged.
C5_IdempotentWhenNothingLeft ==
    (out.op = "replace(replace)" /\ Scan(Matcher, out.arg) = << >>)
        => out.res = Ok(out.arg)

C5_ReplacedTwiceWitness ==
    /\ out.op = "replace(replace)"
    /\ Scan(Matcher, string) # << >>
    /\ Scan(Matcher, out.arg) = << >>
    /\ out.arg # << >>
    /\ out.arg # string

\* ------------------------------------------------------------ C6
\* C6: what replace_with_desc returns does not depend on the order in which
\* its loop takes the distinct sequences found (stated for a sep in which no
\* dictionary sequence occurs).
C6_OrderIndependent ==
    (out.op = "replace_with_desc" /\ NoKeyOccursIn(param)) =>
        \A order \in Orders(FoundKeys(Matcher, string)) :
            ReplaceWithDesc(Matcher, CODE_TO_DESC, string, param, order) = out.res

\* ------------------------------------------------------------ C7
\* C7: with a resource that is missing, not JSON, or not an object mapping
\* string to string, no public call returns a value: each raises.
C7_MalformedRejected ==
    Malformed(resource) => \A t \in Threads : pc[t] = "done" => ~IsOk(ret[t].res)

\* ------------------------------------------------------------ C8
\* C8: reading DIRECTORY or CACHEPATH on the module warns and returns a path;
\* reading any other name the module does not define raises AttributeError.
C8_DeprecatedWarn ==
    /\ attr.name \in {"DIRECTORY", "CACHEPATH"} => attr.warned /\ IsOk(attr.res)
    /\ attr.name \in AttrNames \ (ModuleGlobals \cup {"DIRECTORY", "CACHEPATH"})
           => attr.res.err = "AttributeError"

\* ------------------------------------------------------------ C9
\* C9: for a text in which no dictionary key occurs the scan reports nothing,
\* findall returns the empty mapping, findall_list the empty list, replace the
\* text unchanged whatever the repl, and none raises.
C9_ZeroMatch ==
    (Applied /\ NoKeyOccursIn(string)) =>
        /\ Scan(Matcher, string) = << >>
        /\ out.op = "findall" => IsOk(out.res) /\ out.res.val = {}
        /\ out.op \in {"findall_list", "findall_list(desc=False)"}
               => IsOk(out.res) /\ out.res.val = << >>
        /\ out.op = "replace" => IsOk(out.res) /\ out.res.val = string

\* C9 for a dictionary of at least one sequence and a repl that is a valid
\* template.
C9_ZeroMatchNonEmptyValidRepl ==
    (NonEmptyDictionary /\ IsOk(ExpandTemplate(param, 1))) => C9_ZeroMatch

C9_NoKeyWitness ==
    /\ out.op = "replace"
    /\ NonEmptyDictionary
    /\ string # << >>
    /\ NoKeyOccursIn(string)
    /\ IsOk(out.res)

\* ------------------------------------------------------------ C10
\* C10: findall_list(desc=False) is the scan's matched keys in order, with
\* duplicates; findall_list(desc=True) the same list with each key's
\* description in its place; findall the mapping of the distinct keys of that
\* list, each to its description.
C10_AgreeWithScan ==
    LET ms == Scan(Matcher, string)
        keys == [i \in 1..Len(ms) |-> ms[i].seq]
    IN /\ out.op = "findall_list(desc=False)" => IsOk(out.res) /\ out.res.val = keys
       /\ out.op = "findall_list"
              => /\ IsOk(out.res)
                 /\ out.res.val = [i \in 1..Len(keys) |-> ResourceDesc(keys[i])]
       /\ out.op = "findall"
              => /\ IsOk(out.res)
                 /\ out.res.val = {<<keys[i], ResourceDesc(keys[i])>> : i \in 1..Len(keys)}

\* C10 for a dictionary of at least one sequence.
C10_AgreeWithScanNonEmpty == NonEmptyDictionary => C10_AgreeWithScan

C10_DuplicatesWitness ==
    /\ out.op = "findall"
    /\ NonEmptyDictionary
    /\ Len(Scan(Matcher, string)) > Cardinality(FoundKeys(Matcher, string))
    /\ Cardinality(FoundKeys(Matcher, string)) > 1

====
